---- MODULE Spec2Model ----
(***************************************************************************)
(* The two Broker clients of the repository as one state machine:          *)
(*   "snek"   : src/example_clients/snek/src/broker.py                     *)
(*   "rotala" : src/rotala-python/src/broker.py                            *)
(* A behaviour is the life of one Broker object of one of the two classes  *)
(* (impl is fixed by Init).  Every public call is one action, taken as a   *)
(* whole, exceptions and process exits included.  The market service is    *)
(* the environment: its responses and its transport failures are inputs.   *)
(***************************************************************************)
EXTENDS Integers, Sequences, FiniteSets, TLC

(* ------------------------------------------------------------------ *)
(* Bounds of the model                                                 *)
(* ------------------------------------------------------------------ *)
MaxInputs == 2       \* orders inserted, results and resting orders reported and
                     \* responses lacking a key, over a run
MaxTicks == 2        \* ticks that return normally over a run
InitialCash == 3     \* builder.init_cash: the configured starting balance

(* ------------------------------------------------------------------ *)
(* Input domains                                                       *)
(* ------------------------------------------------------------------ *)
Symbols == {"SYM", "ABC"}
None == <<>>          \* Python None; a present optional value x is <<x>>
Some(x) == <<x>>
TradeValues == {3}
TradeQtys == {2}
Bids == {2}

RECURSIVE SeqsUpTo(_, _)
SeqsUpTo(S, n) ==
  IF n = 0 THEN {<<>>}
  ELSE LET shorter == SeqsUpTo(S, n - 1)
       IN  shorter \cup {Append(q, x) : q \in {r \in shorter : Len(r) = n - 1}, x \in S}

EmptyDict == [k \in {} |-> 0]

(* ------------------------------------------------------------------ *)
(* Enumerations.  A member of a Python Enum equals only itself: a raw  *)
(* JSON value never equals it.  A value is tagged with where it comes  *)
(* from ("json", or the Enum class).                                   *)
(* ------------------------------------------------------------------ *)
Json(v) == [cls |-> "json", v |-> v]
TradeType(name) == [cls |-> "TradeType", v |-> name]

(* ------------------------------------------------------------------ *)
(* State                                                               *)
(* ------------------------------------------------------------------ *)
VARIABLES
  impl,            \* which Broker class the object is
  alive,           \* FALSE once the process has called exit()
  cash, holdings, pending_orders, trade_log, portfolio_values, latest_quotes,
  finished, order_log,                                  \* snek only
  unexecuted_orders, order_inserted_on_last_tick,       \* rotala only
  latest_depth, ts,                                     \* rotala only
  op,              \* the last call made on the Broker
  outcome,         \* how that call ended: "ok", an exception, or an exit
  wire,            \* the order requests the service received during that call
  rejection_events,\* the rejection events that call reported to its caller
  inputs,          \* orders inserted and results reported so far (bounds the run)
  response,        \* the step response that call read (None: it read none)
  unexecuted_before, \* unexecuted_orders as that call found it
  pc               \* where each thread stands in its call of tick ("idle": in none)

\* the threads of the caller, and the state in which none of them is in tick
Threads == {"first", "second"}
NoCall == [t \in Threads |-> "idle"]

vars == <<impl, alive, cash, holdings, pending_orders, trade_log, portfolio_values,
          latest_quotes, finished, order_log, unexecuted_orders,
          order_inserted_on_last_tick, latest_depth, ts, op, outcome, wire,
          rejection_events, inputs, response, unexecuted_before, pc>>


(* ------------------------------------------------------------------ *)
(* Market snapshots: a dict symbol -> quote.  A quote is falsy (None   *)
(* or {}) or carries a bid and a date.  The service lists SYM first.   *)
(* ------------------------------------------------------------------ *)
Quote(b, d) == [truthy |-> TRUE, bid |-> b, date |-> d]
FalsyQuote == [truthy |-> FALSE, bid |-> 0, date |-> 0]
FullSnapshot(d) == [s \in Symbols |-> Quote(CHOOSE b \in Bids : TRUE, d)]
InitialSnapshot == FullSnapshot(100)
\* the snapshots a step brings: every symbol quoted, ABC with a falsy quote, and
\* no symbol at all
Snapshots ==
  {FullSnapshot(101),
   [s \in Symbols |-> IF s = "SYM" THEN FullSnapshot(101)[s] ELSE FalsyQuote],
   EmptyDict}
\* a clock read off the last quote of the snapshot
FirstSymbol_Last(quotes) == IF "ABC" \in DOMAIN quotes THEN "ABC" ELSE "SYM"

FirstSymbol(quotes) == IF "SYM" \in DOMAIN quotes THEN "SYM" ELSE "ABC"
DepthAt(d) == [s \in Symbols |-> [bids |-> <<[price |-> d, size |-> 1]>>, asks |-> <<>>]]
DepthOf(quotes) ==
  IF quotes = EmptyDict THEN EmptyDict ELSE DepthAt(quotes[FirstSymbol(quotes)].date)

(* ------------------------------------------------------------------ *)
(* snek: Order, Trade                                                  *)
(* ------------------------------------------------------------------ *)
SnekIsMarket(order_type) == order_type = "MarketSell" \/ order_type = "MarketBuy"

\* Order.__init__: TRUE when the constructor returns, FALSE when it raises ValueError
SnekOrderInitOK(order_type, symbol, qty, price) ==
  /\ IF SnekIsMarket(order_type) THEN price = None ELSE price # None
  /\ ~(qty <= 0)

SnekOrder(order_type, symbol, qty, price) ==
  [order_type |-> order_type, symbol |-> symbol, qty |-> qty, price |-> price]

\* the orders the caller submits: a buy of each kind, a sell of the size of one
\* fill and of one unit more, and a limit sell of the other symbol
SnekOrders ==
  {o \in {SnekOrder("MarketBuy", "SYM", 2, None), SnekOrder("LimitBuy", "ABC", 2, Some(1)),
          SnekOrder("MarketSell", "SYM", 2, None), SnekOrder("MarketSell", "SYM", 3, None),
          SnekOrder("LimitSell", "ABC", 2, Some(1))} :
     SnekOrderInitOK(o.order_type, o.symbol, o.qty, o.price)}

\* an element of executed_trades as the service sends it
SnekTradeDicts ==
  {[symbol |-> s, value |-> v, quantity |-> q, date |-> d, typ |-> Json(t)] :
     s \in Symbols, v \in TradeValues, q \in TradeQtys, d \in {100}, t \in {"Buy", "Sell"}}

\* Trade.from_dict: the fields are copied as they are; typ stays the raw JSON value
SnekTradeFromDict(trade_dict) ==
  [symbol |-> trade_dict.symbol, value |-> trade_dict.value,
   quantity |-> trade_dict.quantity, date |-> trade_dict.date, typ |-> trade_dict.typ]

SnekInsertedDicts ==
  {[order_id |-> 1, order_type |-> Json("LimitBuy"), symbol |-> "SYM", qty |-> 2,
    price |-> Some(1)]}

(* ------------------------------------------------------------------ *)
(* Ledger helpers (the same code in both classes)                      *)
(* ------------------------------------------------------------------ *)
\* Broker._update_holdings
UpdateHoldings(h, position, chg) ==
  LET h0 == IF position \in DOMAIN h THEN h ELSE h @@ (position :> 0)
  IN  [h0 EXCEPT ![position] = @ + chg]

\* Broker.get_position
GetPosition(h, symbol) == IF symbol \in DOMAIN h THEN h[symbol] ELSE 0

\* a sum of quantities, the bid forgotten
RECURSIVE SumHeld_Qty(_, _, _)
SumHeld_Qty(h, quotes, syms) ==
  IF syms = {} THEN 0
  ELSE LET s == CHOOSE x \in syms : TRUE
       IN  (IF quotes[s].truthy THEN h[s] ELSE 0) + SumHeld_Qty(h, quotes, syms \ {s})

\* Broker.get_current_value: [err, value]; KeyError when a held symbol is not a
\* key of latest_quotes; a falsy quote is skipped
RECURSIVE SumHeld(_, _, _)
SumHeld(h, quotes, syms) ==
  IF syms = {} THEN 0
  ELSE LET s == CHOOSE x \in syms : TRUE
       IN  (IF quotes[s].truthy THEN h[s] * quotes[s].bid ELSE 0)
             + SumHeld(h, quotes, syms \ {s})

\* a valuation that starts from zero instead of cash
GetCurrentValue_FromZero(c, h, quotes) ==
  IF \E s \in DOMAIN h : s \notin DOMAIN quotes
  THEN [err |-> "KeyError", value |-> 0]
  ELSE [err |-> "ok", value |-> SumHeld(h, quotes, DOMAIN h)]

\* a valuation that passes over a held symbol without quote, as quotes.get does
GetCurrentValue_Lenient(c, h, quotes) ==
  [err |-> "ok", value |-> c + SumHeld(h, quotes, DOMAIN h \cap DOMAIN quotes)]

GetCurrentValue(c, h, quotes) ==
  IF \E s \in DOMAIN h : s \notin DOMAIN quotes
  THEN [err |-> "KeyError", value |-> 0]
  ELSE [err |-> "ok", value |-> c + SumHeld(h, quotes, DOMAIN h)]

(* ------------------------------------------------------------------ *)
(* snek: Broker                                                        *)
(* ------------------------------------------------------------------ *)
\* Broker._validate_order: "True", "False", or "KeyError" (holdings[order.symbol]
\* of a symbol that is no key of holdings)
SnekValidateOrder(order, h) ==
  IF order.order_type = "MarketSell" \/ order.order_type = "LimitSell"
  THEN IF order.symbol \notin DOMAIN h THEN "KeyError"
       ELSE IF h[order.symbol] = 0 \/ order.qty > h[order.symbol] THEN "False" ELSE "True"
  ELSE "True"

\* Broker._process_trade
SnekProcessTrade(st, trade) ==
  LET signed_qty == IF trade.typ = TradeType("Buy") THEN trade.quantity ELSE -trade.quantity
  IN  [cash |-> st.cash - trade.value,
       holdings |-> UpdateHoldings(st.holdings, trade.symbol, signed_qty)]

\* Broker.tick, lines 186-190: pop the last pending order, validate, send.
\* failAt is the number of the HTTP call of this tick that raises (0: none).
RECURSIVE SnekFlush_PopAfterSend(_, _, _, _)
SnekFlush_PopAfterSend(pend, h, failAt, sent) ==
  IF Len(pend) = 0 THEN [pending |-> pend, wire |-> sent, err |-> "ok"]
  ELSE LET order == pend[Len(pend)]
           rest == SubSeq(pend, 1, Len(pend) - 1)
           valid == SnekValidateOrder(order, h)
       IN  IF valid = "KeyError" THEN [pending |-> rest, wire |-> sent, err |-> "KeyError"]
           ELSE IF valid = "False" THEN SnekFlush_PopAfterSend(rest, h, failAt, sent)
           ELSE IF failAt = Len(sent) + 1
                THEN [pending |-> pend, wire |-> sent, err |-> "ConnectionError"]
                ELSE SnekFlush_PopAfterSend(rest, h, failAt, Append(sent, order))

\* a flush that sends every order it accepts a second time
RECURSIVE SnekFlush_Resend(_, _, _, _)
SnekFlush_Resend(pend, h, failAt, sent) ==
  IF Len(pend) = 0 THEN [pending |-> pend, wire |-> sent, err |-> "ok"]
  ELSE LET order == pend[Len(pend)]
           rest == SubSeq(pend, 1, Len(pend) - 1)
           valid == SnekValidateOrder(order, h)
       IN  IF valid = "KeyError" THEN [pending |-> rest, wire |-> sent, err |-> "KeyError"]
           ELSE IF valid = "False" THEN SnekFlush_Resend(rest, h, failAt, sent)
           ELSE IF failAt = Len(sent) + 1
                THEN [pending |-> rest, wire |-> sent, err |-> "ConnectionError"]
                ELSE SnekFlush_Resend(rest, h, failAt, Append(Append(sent, order), order))

RECURSIVE SnekFlush(_, _, _, _)
SnekFlush(pend, h, failAt, sent) ==
  IF Len(pend) = 0 THEN [pending |-> pend, wire |-> sent, err |-> "ok"]
  ELSE LET order == pend[Len(pend)]
           rest == SubSeq(pend, 1, Len(pend) - 1)
           valid == SnekValidateOrder(order, h)
       IN  IF valid = "KeyError" THEN [pending |-> rest, wire |-> sent, err |-> "KeyError"]
           ELSE IF valid = "False" THEN SnekFlush(rest, h, failAt, sent)
           ELSE IF failAt = Len(sent) + 1
                THEN [pending |-> rest, wire |-> sent, err |-> "ConnectionError"]
                ELSE SnekFlush(rest, h, failAt, Append(sent, order))

\* a tick that drops the executed trades of the response
SnekReconcile_Nothing(st, executed) == st

\* a tick that puts each trade in front of the log
RECURSIVE SnekReconcile_NewestFirst(_, _)
SnekReconcile_NewestFirst(st, executed) ==
  IF executed = <<>> THEN st
  ELSE LET trade == SnekTradeFromDict(Head(executed))
           after == SnekProcessTrade(st, trade)
       IN  SnekReconcile_NewestFirst(
             [cash |-> after.cash, holdings |-> after.holdings,
              trade_log |-> <<trade>> \o st.trade_log], Tail(executed))

\* Broker.tick, lines 193-196
RECURSIVE SnekReconcile(_, _)
SnekReconcile(st, executed) ==
  IF executed = <<>> THEN st
  ELSE LET trade == SnekTradeFromDict(Head(executed))
           after == SnekProcessTrade(st, trade)
       IN  SnekReconcile([cash |-> after.cash, holdings |-> after.holdings,
                          trade_log |-> Append(st.trade_log, trade)], Tail(executed))

\* the step responses the service can give a snek Broker: http.tick()'s JSON and,
\* when has_next, the quotes of the fetch_quotes() call that follows
SnekResponse(n, e, i, b) == [has_next |-> n, executed |-> e, inserted |-> i, bbo |-> b]
SnekExecutedLists == SeqsUpTo(SnekTradeDicts, MaxInputs)
SnekInsertedLists == SeqsUpTo(SnekInsertedDicts, MaxInputs)
SnekExecuted(room) == {e \in SnekExecutedLists : Len(e) <= room}
SnekInserted(room) == {i \in SnekInsertedLists : Len(i) <= room}

\* Broker.insert_order
SnekInsertOrder(order) ==
  /\ impl = "snek" /\ alive
  /\ pending_orders' = IF finished THEN pending_orders ELSE Append(pending_orders, order)
  /\ op' = "insert_order" /\ outcome' = "ok" /\ wire' = <<>>
  /\ rejection_events' = <<>> /\ response' = None
  /\ unexecuted_before' = unexecuted_orders
  /\ inputs' = inputs + 1
  /\ UNCHANGED <<impl, alive, cash, holdings, trade_log, portfolio_values, latest_quotes,
                 finished, order_log, unexecuted_orders, order_inserted_on_last_tick,
                 latest_depth, ts, pc>>

\* the Broker as a call of tick finds it, nothing sent or read yet
SnekBefore ==
  [alive |-> alive, cash |-> cash, holdings |-> holdings,
   pending_orders |-> pending_orders, trade_log |-> trade_log,
   order_log |-> order_log, finished |-> finished,
   latest_quotes |-> latest_quotes, portfolio_values |-> portfolio_values,
   wire |-> <<>>, response |-> None, outcome |-> "ok"]

\* Broker.tick, lines 186-206: the state the call leaves and how it ends.
\* failAt is the number of the HTTP call of this tick that raises (0: none).
SnekTickBody(resp, failAt) ==
  LET fl == SnekFlush(pending_orders, holdings, failAt, <<>>)
      flushed == [SnekBefore EXCEPT !.pending_orders = fl.pending, !.wire = fl.wire]
  IN
  IF fl.err # "ok" THEN [flushed EXCEPT !.outcome = fl.err]
  ELSE IF failAt = Len(fl.wire) + 1 THEN [flushed EXCEPT !.outcome = "ConnectionError"]
  ELSE
  LET rec == SnekReconcile([cash |-> cash, holdings |-> holdings, trade_log |-> trade_log],
                           resp.executed)
      reconciled == [flushed EXCEPT !.cash = rec.cash, !.holdings = rec.holdings,
                                    !.trade_log = rec.trade_log,
                                    !.order_log = order_log \o resp.inserted,
                                    !.response = Some(resp)]
  IN
  IF resp.has_next /\ failAt = Len(fl.wire) + 2
  THEN [reconciled EXCEPT !.outcome = "ConnectionError"]
  ELSE
  LET advanced == IF ~resp.has_next THEN [reconciled EXCEPT !.finished = TRUE]
                  ELSE [reconciled EXCEPT !.latest_quotes = resp.bbo]
      val == GetCurrentValue(advanced.cash, advanced.holdings, advanced.latest_quotes)
  IN
  IF val.err # "ok" THEN [advanced EXCEPT !.outcome = val.err]
  ELSE [advanced EXCEPT !.portfolio_values = Append(portfolio_values, val.value)]

\* a tick without the check of self.finished
SnekTickResult_Unguarded(resp, failAt) == SnekTickBody(resp, failAt)

\* Broker.tick, as a whole
SnekTickResult(resp, failAt) ==
  IF finished
  THEN [SnekBefore EXCEPT !.alive = FALSE, !.outcome = "exit0"]
  ELSE SnekTickBody(resp, failAt)

SnekTick(resp, failAt) ==
  /\ impl = "snek" /\ alive
  /\ \E r \in {SnekTickResult(resp, failAt)} :
         /\ alive' = r.alive /\ cash' = r.cash /\ holdings' = r.holdings
         /\ pending_orders' = r.pending_orders /\ trade_log' = r.trade_log
         /\ order_log' = r.order_log /\ finished' = r.finished
         /\ latest_quotes' = r.latest_quotes /\ portfolio_values' = r.portfolio_values
         /\ wire' = r.wire /\ response' = r.response /\ outcome' = r.outcome
  /\ op' = "tick" /\ rejection_events' = <<>>
  /\ unexecuted_before' = unexecuted_orders
  /\ inputs' = inputs + Len(resp.executed) + Len(resp.inserted)
  /\ UNCHANGED <<impl, unexecuted_orders, order_inserted_on_last_tick, latest_depth, ts,
                 pc>>

\* the run goes on until the process exits or MaxTicks ticks have returned
Running == alive /\ Len(portfolio_values) < MaxTicks

\* The environment of one snek tick: a response within the bounds of the run, or a
\* transport failure at one of the calls the tick makes.  What the tick never reads
\* (the response of a call that failed, the quotes that are not fetched) is left
\* at one value.
SnekTickStep ==
  LET fl == SnekFlush(pending_orders, holdings, 0, <<>>)
      calls == Len(fl.wire)
      room == MaxInputs - inputs
      unread == SnekResponse(TRUE, <<>>, <<>>, EmptyDict)
  IN  /\ Running
      /\ \/ (finished \/ fl.err # "ok") /\ SnekTick(unread, 0)
         \/ /\ ~finished
            /\ \E failAt \in 1 .. calls + (IF fl.err = "ok" THEN 1 ELSE 0) :
                  SnekTick(unread, failAt)
         \/ /\ ~finished /\ fl.err = "ok"
            /\ \E e \in SnekExecuted(room) :
                 \E i \in SnekInserted(room - Len(e)) :
                    \/ \E b \in Snapshots : SnekTick(SnekResponse(TRUE, e, i, b), 0)
                    \/ SnekTick(SnekResponse(FALSE, e, i, EmptyDict), 0)
                    \/ SnekTick(SnekResponse(TRUE, e, i, EmptyDict), calls + 2)

(* ------------------------------------------------------------------ *)
(* rotala: Order, OrderResult                                          *)
(* ------------------------------------------------------------------ *)
OrderResultType(name) == [cls |-> "OrderResultType", v |-> name]
OrderResultTypeNames == {"Buy", "Sell", "Modify", "Cancel"}

\* OrderResultType(value): the lookup by value returns when value is the value of a
\* member and raises ValueError otherwise
KnownResultType(v) == v \in OrderResultTypeNames

\* Order.__init__: TRUE when the constructor returns, FALSE when it raises ValueError
RotalaOrderInitOK(order_type, symbol, qty, price, order_id_ref) ==
  (order_type = "MarketSell" \/ order_type = "MarketBuy") => price = None

RotalaOrder(order_type, symbol, qty, price, order_id_ref) ==
  [order_type |-> order_type, symbol |-> symbol, qty |-> qty, price |-> price,
   order_id_ref |-> order_id_ref]

\* the orders the caller submits: a limit buy, a market sell and the cancel of order 1
RotalaOrders ==
  {o \in {RotalaOrder("LimitBuy", "SYM", 2, Some(1), None),
          RotalaOrder("MarketSell", "SYM", 2, None, None),
          RotalaOrder("Cancel", "SYM", 0, None, Some(1))} :
     RotalaOrderInitOK(o.order_type, o.symbol, o.qty, o.price, o.order_id_ref)}

\* the elements of executed_orders as the service sends them: fills of SYM under
\* order 1, fills of ABC under order 3, the cancel of order 1 by order 2, a modify
RotalaResultDicts ==
  {[symbol |-> s, value |-> v, quantity |-> q, date |-> 100, typ |-> Json(t),
    order_id |-> IF s = "SYM" THEN 1 ELSE 3, order_id_ref |-> None] :
     s \in Symbols, v \in TradeValues, q \in TradeQtys, t \in {"Buy", "Sell"}}
    \cup {[symbol |-> "SYM", value |-> 0, quantity |-> 0, date |-> 100,
           typ |-> Json("Cancel"), order_id |-> 2, order_id_ref |-> Some(1)],
          [symbol |-> "SYM", value |-> 0, quantity |-> 0, date |-> 100,
           typ |-> Json("Modify"), order_id |-> 1, order_id_ref |-> None]}

\* an element of executed_orders of a kind that OrderResultType does not have
RotalaUnknownResult ==
  [symbol |-> "SYM", value |-> 0, quantity |-> 0, date |-> 100,
   typ |-> Json("Expired"), order_id |-> 1, order_id_ref |-> None]

\* OrderResult.from_dict: typ becomes the member of OrderResultType of that value
RotalaResultFromDict(from_dict) ==
  [symbol |-> from_dict.symbol, value |-> from_dict.value,
   quantity |-> from_dict.quantity, date |-> from_dict.date,
   typ |-> OrderResultType(from_dict.typ.v), order_id |-> from_dict.order_id,
   order_id_ref |-> from_dict.order_id_ref]

\* the elements of inserted_orders: order 1 resting with less than, as much as and
\* more than one fill, and the cancel instruction 2 of order 1
RotalaInsertedDicts ==
  {[order_id |-> 1, order_type |-> Json("LimitBuy"), symbol |-> "SYM", qty |-> q,
    price |-> Some(1), order_id_ref |-> None] : q \in {1, 2, 3}}
    \cup {[order_id |-> 2, order_type |-> Json("Cancel"), symbol |-> "SYM", qty |-> 0,
           price |-> None, order_id_ref |-> Some(1)]}

\* Order.from_dict
RotalaOrderFromDict(order) ==
  RotalaOrder(order.order_type.v, order.symbol, order.qty, order.price, order.order_id_ref)

(* ------------------------------------------------------------------ *)
(* rotala: Broker                                                      *)
(* ------------------------------------------------------------------ *)
\* a del statement that is not carried out
DictDel_Keep(d, k) == d

\* a removal that passes over a missing key, as pop(k, None) does
DictHas_Always(d, k) == TRUE

\* del d[k] finds the key (it raises KeyError when it does not)
DictHas(d, k) == k \in DOMAIN d

\* removal of a key of a dict
DictDel(d, k) == [x \in DOMAIN d \ {k} |-> d[x]]
\* assignment to a key of a dict
DictSet(d, k, v) == [x \in DOMAIN d \cup {k} |-> IF x = k THEN v ELSE d[x]]

\* a Broker that never finds itself out of cash
RotalaRunOutOfCash_Never(c) == FALSE

\* Broker._process_order_result, the check of line 214
RotalaRunOutOfCash(c) == c < 0

\* Broker._process_order_result on st = [cash, holdings, unexecuted_orders]:
\* the state it leaves and how it ends ("ok", an exception, "exit1")
RotalaProcessOrderResult(st, result) ==
  IF result.typ = OrderResultType("Buy") \/ result.typ = OrderResultType("Sell")
  THEN
    LET after_trade == IF result.typ = OrderResultType("Buy")
                       THEN st.cash - result.value ELSE st.cash + result.value
        paid == [st EXCEPT !.cash = after_trade]
        signed_qty == IF result.typ = OrderResultType("Buy")
                      THEN result.quantity ELSE -result.quantity
        held == [paid EXCEPT !.holdings = UpdateHoldings(st.holdings, result.symbol, signed_qty)]
    IN  IF RotalaRunOutOfCash(paid.cash) THEN [paid EXCEPT !.err = "exit1"]
        ELSE IF result.order_id \in DOMAIN st.unexecuted_orders
        THEN IF result.quantity > st.unexecuted_orders[result.order_id].qty
             THEN [held EXCEPT !.err = "TypeError"]
             ELSE [held EXCEPT !.unexecuted_orders = DictDel(@, result.order_id)]
        ELSE held
  ELSE IF result.typ = OrderResultType("Cancel")
  THEN IF ~DictHas(st.unexecuted_orders, result.order_id)
       THEN [st EXCEPT !.err = "KeyError"]
       ELSE LET first == [st EXCEPT !.unexecuted_orders = DictDel(@, result.order_id)]
            IN  IF result.order_id_ref = None
                   \/ ~DictHas(first.unexecuted_orders, result.order_id_ref[1])
                THEN [first EXCEPT !.err = "KeyError"]
                ELSE [first EXCEPT !.unexecuted_orders = DictDel(@, result.order_id_ref[1])]
  ELSE [st EXCEPT !.err = "exit1"]

\* Broker.tick, lines 278-281, on st = [cash, holdings, unexecuted_orders, trade_log, err]
RECURSIVE RotalaReconcile(_, _)
RotalaReconcile(st, executed) ==
  IF executed = <<>> THEN st
  ELSE IF ~KnownResultType(Head(executed).typ.v) THEN [st EXCEPT !.err = "ValueError"]
  ELSE LET order_result == RotalaResultFromDict(Head(executed))
           after == RotalaProcessOrderResult(st, order_result)
       IN  IF after.err # "ok" THEN after
           ELSE RotalaReconcile([after EXCEPT !.trade_log = Append(@, order_result)],
                                Tail(executed))

\* a tick that forgets the resting orders the response reports
RotalaRegister_Nothing(st, inserted) == st

\* Broker.tick, lines 283-285, on st = [unexecuted_orders, order_inserted_on_last_tick]
RECURSIVE RotalaRegister(_, _)
RotalaRegister(st, inserted) ==
  IF inserted = <<>> THEN st
  ELSE LET order == Head(inserted)
       IN  RotalaRegister(
             [unexecuted_orders |->
                DictSet(st.unexecuted_orders, order.order_id, RotalaOrderFromDict(order)),
              order_inserted_on_last_tick |-> Append(st.order_inserted_on_last_tick, order)],
             Tail(inserted))

\* HttpClient.insert_orders: the batch request; the service receives the orders of
\* the list in the order of the list
HttpInsertOrders(orders) == orders

\* The body of the step response.  missing names the key the body lacks (None:
\* it has them all); what the record holds for a lacking key is never read.
RotalaResponse(n, e, i, b) ==
  [has_next |-> n, executed |-> e, inserted |-> i, bbo |-> b, depth |-> DepthOf(b),
   missing |-> None]
RotalaMalformed(resp, key) == [resp EXCEPT !.missing = Some(key)]

\* the keys Broker.tick reads from the response, in the order it reads them
ResponseKeys == <<"executed_orders", "inserted_orders", "has_next", "bbo", "depth">>

\* a lookup that finds every key
HasKey_Always(resp, key) == TRUE

\* tick_response[key] returns when the body has the key and raises KeyError otherwise
HasKey(resp, key) == resp.missing # Some(key)
RotalaExecutedLists == SeqsUpTo(RotalaResultDicts, MaxInputs)
RotalaInsertedLists == SeqsUpTo(RotalaInsertedDicts, MaxInputs)
RotalaExecuted(room) == {e \in RotalaExecutedLists : Len(e) <= room}
RotalaInserted(room) == {i \in RotalaInsertedLists : Len(i) <= room}

\* an insert_order that sends the order to the service at once
RotalaInsertOrder_Transmits(order) ==
  /\ impl = "rotala" /\ alive
  /\ pending_orders' = Append(pending_orders, order)
  /\ op' = "insert_order" /\ outcome' = "ok" /\ wire' = <<order>>
  /\ rejection_events' = <<>> /\ response' = None
  /\ unexecuted_before' = unexecuted_orders
  /\ inputs' = inputs + 1
  /\ UNCHANGED <<impl, alive, cash, holdings, trade_log, portfolio_values, latest_quotes,
                 finished, order_log, unexecuted_orders, order_inserted_on_last_tick,
                 latest_depth, ts, pc>>

\* Broker.insert_order
RotalaInsertOrder(order) ==
  /\ impl = "rotala" /\ alive
  /\ pending_orders' = Append(pending_orders, order)
  /\ op' = "insert_order" /\ outcome' = "ok" /\ wire' = <<>>
  /\ rejection_events' = <<>> /\ response' = None
  /\ unexecuted_before' = unexecuted_orders
  /\ inputs' = inputs + 1
  /\ UNCHANGED <<impl, alive, cash, holdings, trade_log, portfolio_values, latest_quotes,
                 finished, order_log, unexecuted_orders, order_inserted_on_last_tick,
                 latest_depth, ts, pc>>

\* Broker.tick, as a whole: the state the call leaves and how it ends.
\* failAt is the number of the HTTP call of this tick that raises (0: none).
RotalaTickResult(resp, failAt) ==
  LET before == [alive |-> alive, cash |-> cash, holdings |-> holdings,
                 pending_orders |-> pending_orders, trade_log |-> trade_log,
                 unexecuted_orders |-> unexecuted_orders,
                 order_inserted_on_last_tick |-> order_inserted_on_last_tick,
                 latest_quotes |-> latest_quotes, latest_depth |-> latest_depth, ts |-> ts,
                 portfolio_values |-> portfolio_values,
                 wire |-> <<>>, response |-> None, outcome |-> "ok"]
  IN
  IF failAt = 1 THEN [before EXCEPT !.outcome = "ConnectionError"]
  ELSE
  LET flushed == [before EXCEPT !.wire = HttpInsertOrders(pending_orders),
                                !.pending_orders = <<>>,
                                !.order_inserted_on_last_tick = <<>>]
  IN
  IF failAt = 2 THEN [flushed EXCEPT !.outcome = "ConnectionError"]
  ELSE IF ~HasKey(resp, "executed_orders")
       THEN [flushed EXCEPT !.response = Some(resp), !.outcome = "KeyError"]
  ELSE
  LET rec == RotalaReconcile([cash |-> cash, holdings |-> holdings,
                              unexecuted_orders |-> unexecuted_orders,
                              trade_log |-> trade_log, err |-> "ok"], resp.executed)
      reconciled == [flushed EXCEPT !.cash = rec.cash, !.holdings = rec.holdings,
                                    !.unexecuted_orders = rec.unexecuted_orders,
                                    !.trade_log = rec.trade_log,
                                    !.response = Some(resp)]
  IN
  IF rec.err \in {"exit1"} THEN [reconciled EXCEPT !.alive = FALSE, !.outcome = rec.err]
  ELSE IF rec.err # "ok" THEN [reconciled EXCEPT !.outcome = rec.err]
  ELSE IF ~HasKey(resp, "inserted_orders") THEN [reconciled EXCEPT !.outcome = "KeyError"]
  ELSE
  LET reg == RotalaRegister([unexecuted_orders |-> rec.unexecuted_orders,
                             order_inserted_on_last_tick |-> <<>>], resp.inserted)
      registered == [reconciled EXCEPT
                       !.unexecuted_orders = reg.unexecuted_orders,
                       !.order_inserted_on_last_tick = reg.order_inserted_on_last_tick]
  IN
  IF ~HasKey(resp, "has_next") THEN [registered EXCEPT !.outcome = "KeyError"]
  ELSE IF ~resp.has_next THEN [registered EXCEPT !.alive = FALSE, !.outcome = "exit0"]
  ELSE IF ~HasKey(resp, "bbo") THEN [registered EXCEPT !.outcome = "KeyError"]
  ELSE IF ~HasKey(resp, "depth")
       THEN [registered EXCEPT !.latest_quotes = resp.bbo, !.outcome = "KeyError"]
  ELSE
  LET advanced == [registered EXCEPT
                     !.latest_quotes = resp.bbo, !.latest_depth = resp.depth,
                     !.ts = IF resp.bbo # EmptyDict
                            THEN Some(resp.bbo[FirstSymbol(resp.bbo)].date) ELSE @]
      val == GetCurrentValue(advanced.cash, advanced.holdings, advanced.latest_quotes)
  IN
  IF val.err # "ok" THEN [advanced EXCEPT !.outcome = val.err]
  ELSE [advanced EXCEPT !.portfolio_values = Append(portfolio_values, val.value)]

RotalaTick(resp, failAt) ==
  /\ impl = "rotala" /\ alive
  /\ \E r \in {RotalaTickResult(resp, failAt)} :
         /\ alive' = r.alive /\ cash' = r.cash /\ holdings' = r.holdings
         /\ pending_orders' = r.pending_orders /\ trade_log' = r.trade_log
         /\ unexecuted_orders' = r.unexecuted_orders
         /\ order_inserted_on_last_tick' = r.order_inserted_on_last_tick
         /\ latest_quotes' = r.latest_quotes /\ latest_depth' = r.latest_depth
         /\ ts' = r.ts /\ portfolio_values' = r.portfolio_values
         /\ wire' = r.wire /\ response' = r.response /\ outcome' = r.outcome
  /\ op' = "tick" /\ rejection_events' = <<>>
  /\ unexecuted_before' = unexecuted_orders
  /\ inputs' = inputs + Len(resp.executed) + Len(resp.inserted)
                + (IF resp.missing = None THEN 0 ELSE 1)
  /\ UNCHANGED <<impl, finished, order_log, pc>>

\* The environment of one rotala tick (as for snek).  What tick does not get to
\* read is left empty: bbo and depth when has_next is false, and what follows a
\* lacking key or a result of an unknown kind.
RotalaTickStep ==
  LET room == MaxInputs - inputs
  IN  /\ Running
      /\ \/ \E e \in RotalaExecuted(room) :
              \E i \in RotalaInserted(room - Len(e)) :
                 \/ \E b \in Snapshots : RotalaTick(RotalaResponse(TRUE, e, i, b), 0)
                 \/ RotalaTick(RotalaResponse(FALSE, e, i, EmptyDict), 0)
         \/ \E failAt \in 1 .. 2 :
              RotalaTick(RotalaResponse(TRUE, <<>>, <<>>, EmptyDict), failAt)
         \/ \E e \in RotalaExecuted(room - 1) :
              RotalaTick(RotalaResponse(TRUE, Append(e, RotalaUnknownResult), <<>>,
                                        EmptyDict), 0)
         \/ \E k \in DOMAIN ResponseKeys :
              \E e \in (IF k = 1 THEN {<<>>} ELSE RotalaExecuted(room - 1)),
                 n \in (IF k = 4 THEN BOOLEAN ELSE {TRUE}),
                 b \in (IF k = 5 THEN Snapshots ELSE {EmptyDict}) :
                \E i \in (IF k <= 2 THEN {<<>>} ELSE RotalaInserted(room - 1 - Len(e))) :
                   /\ room >= 1
                   /\ RotalaTick(RotalaMalformed(RotalaResponse(n, e, i, b),
                                                 ResponseKeys[k]), 0)

RotalaInit ==
  /\ impl = "rotala" /\ alive = TRUE
  /\ cash = InitialCash /\ holdings = EmptyDict /\ pending_orders = <<>>
  /\ trade_log = <<>> /\ order_inserted_on_last_tick = <<>>
  /\ unexecuted_orders = EmptyDict /\ portfolio_values = <<>>
  /\ latest_quotes = InitialSnapshot /\ latest_depth = DepthOf(InitialSnapshot)
  /\ ts = Some(InitialSnapshot[FirstSymbol(InitialSnapshot)].date)
  /\ finished = FALSE /\ order_log = <<>>
  /\ op = "init" /\ outcome = "ok" /\ wire = <<>> /\ rejection_events = <<>>
  /\ response = None /\ inputs = 0 /\ unexecuted_before = EmptyDict
  /\ pc = NoCall

SnekInit ==
  /\ impl = "snek" /\ alive = TRUE
  /\ cash = InitialCash /\ holdings = EmptyDict /\ pending_orders = <<>>
  /\ finished = FALSE /\ trade_log = <<>> /\ order_log = <<>> /\ portfolio_values = <<>>
  /\ latest_quotes = InitialSnapshot
  /\ unexecuted_orders = EmptyDict /\ order_inserted_on_last_tick = <<>>
  /\ latest_depth = EmptyDict /\ ts = None
  /\ op = "init" /\ outcome = "ok" /\ wire = <<>> /\ rejection_events = <<>>
  /\ response = None /\ inputs = 0 /\ unexecuted_before = EmptyDict
  /\ pc = NoCall

Init == SnekInit \/ RotalaInit

Next ==
  \/ \E order \in SnekOrders :
       Running /\ inputs < MaxInputs /\ SnekInsertOrder(order)
  \/ SnekTickStep
  \/ \E order \in RotalaOrders :
       Running /\ inputs < MaxInputs /\ RotalaInsertOrder(order)
  \/ RotalaTickStep

Spec == Init /\ [][Next]_vars

(* ------------------------------------------------------------------ *)
(* rotala: a Broker with resting orders                                *)
(* ------------------------------------------------------------------ *)
\* the resting orders a first tick reported: order 1, the cancel instruction 2 of
\* order 1, and order 3 in the other symbol
RestingInserted ==
  <<[order_id |-> 1, order_type |-> Json("LimitBuy"), symbol |-> "SYM", qty |-> 2,
     price |-> Some(1), order_id_ref |-> None],
    [order_id |-> 2, order_type |-> Json("Cancel"), symbol |-> "SYM", qty |-> 0,
     price |-> None, order_id_ref |-> Some(1)],
    [order_id |-> 3, order_type |-> Json("LimitBuy"), symbol |-> "ABC", qty |-> 2,
     price |-> Some(1), order_id_ref |-> None]>>

\* the rotala Broker as its first tick leaves it when the response of that tick
\* reports RestingInserted, no executed result and the next snapshot
RestingInit ==
  /\ impl = "rotala" /\ alive = TRUE
  /\ cash = InitialCash /\ holdings = EmptyDict /\ pending_orders = <<>>
  /\ trade_log = <<>> /\ order_inserted_on_last_tick = RestingInserted
  /\ unexecuted_orders =
       RotalaRegister([unexecuted_orders |-> EmptyDict,
                       order_inserted_on_last_tick |-> <<>>], RestingInserted).unexecuted_orders
  /\ portfolio_values = <<InitialCash>>
  /\ latest_quotes = FullSnapshot(101) /\ latest_depth = DepthOf(FullSnapshot(101))
  /\ ts = Some(101)
  /\ finished = FALSE /\ order_log = <<>>
  /\ op = "tick" /\ outcome = "ok" /\ wire = <<>> /\ rejection_events = <<>>
  /\ response = Some(RotalaResponse(TRUE, <<>>, RestingInserted, FullSnapshot(101)))
  /\ inputs = 0 /\ unexecuted_before = EmptyDict
  /\ pc = NoCall

RotalaNext ==
  \/ \E order \in RotalaOrders :
       Running /\ inputs < MaxInputs /\ RotalaInsertOrder(order)
  \/ RotalaTickStep

SpecResting == RestingInit /\ [][RotalaNext]_vars

(* ------------------------------------------------------------------ *)
(* snek: two calls of tick that overlap                                *)
(* ------------------------------------------------------------------ *)
\* Broker.tick has no lock and no flag that marks a call in progress: a call made
\* from a second thread runs the same statements on the same object.  A thread can
\* be preempted wherever it waits for the service, so each HTTP call ends a step.
\* The thread "second" calls tick only while the thread "first" is in tick.

\* what every step of a thread in tick leaves alone
OverlapFrame ==
  /\ op' = "tick" /\ rejection_events' = <<>>
  /\ UNCHANGED <<impl, alive, unexecuted_orders, order_inserted_on_last_tick,
                 latest_depth, ts, unexecuted_before>>

\* Broker.tick, lines 181-184: the call finds the Broker not finished
OverlapCall(t) ==
  /\ impl = "snek" /\ alive /\ Running /\ ~finished
  /\ pc[t] = "idle"
  /\ t = "first" => pc["second"] = "idle"
  /\ t = "second" => pc["first"] # "idle"
  /\ pc' = [pc EXCEPT ![t] = "flush"]
  /\ outcome' = "ok"
  /\ OverlapFrame
  /\ UNCHANGED <<cash, holdings, pending_orders, trade_log, portfolio_values,
                 latest_quotes, finished, order_log, wire, inputs, response>>

\* Broker.tick, lines 186-192: one turn of the flush loop, up to the HTTP call it
\* makes (insert_order of the popped order, or tick once the list is empty)
OverlapSend(t) ==
  /\ impl = "snek" /\ alive
  /\ pc[t] = "flush"
  /\ IF pending_orders = <<>>
     THEN /\ pc' = [pc EXCEPT ![t] = "step"]
          /\ outcome' = "ok"
          /\ UNCHANGED <<pending_orders, wire>>
     ELSE LET order == pending_orders[Len(pending_orders)]
              valid == SnekValidateOrder(order, holdings)
          IN  /\ pending_orders' = SubSeq(pending_orders, 1, Len(pending_orders) - 1)
              /\ wire' = IF valid = "True" THEN Append(wire, order) ELSE wire
              /\ outcome' = IF valid = "KeyError" THEN "KeyError" ELSE "ok"
              /\ pc' = [pc EXCEPT ![t] = IF valid = "KeyError" THEN "idle" ELSE "flush"]
  /\ OverlapFrame
  /\ UNCHANGED <<cash, holdings, trade_log, portfolio_values, latest_quotes, finished,
                 order_log, inputs, response>>

\* Broker.tick, lines 192-206: the step response arrives and is reconciled; on
\* has_next the thread goes on to fetch the quotes, else it records the value
OverlapStep(t, resp) ==
  /\ impl = "snek" /\ alive
  /\ pc[t] = "step"
  /\ LET rec == SnekReconcile([cash |-> cash, holdings |-> holdings,
                               trade_log |-> trade_log], resp.executed)
         val == GetCurrentValue(rec.cash, rec.holdings, latest_quotes)
     IN  /\ cash' = rec.cash /\ holdings' = rec.holdings /\ trade_log' = rec.trade_log
         /\ order_log' = order_log \o resp.inserted
         /\ response' = Some(resp)
         /\ inputs' = inputs + Len(resp.executed) + Len(resp.inserted)
         /\ IF resp.has_next
            THEN /\ pc' = [pc EXCEPT ![t] = "quotes"]
                 /\ outcome' = "ok"
                 /\ UNCHANGED <<finished, portfolio_values>>
            ELSE /\ pc' = [pc EXCEPT ![t] = "idle"]
                 /\ finished' = TRUE
                 /\ outcome' = val.err
                 /\ portfolio_values' = IF val.err = "ok"
                                        THEN Append(portfolio_values, val.value)
                                        ELSE portfolio_values
  /\ OverlapFrame
  /\ UNCHANGED <<pending_orders, latest_quotes, wire>>

\* Broker.tick, lines 204-206: the quotes arrive and the value is recorded
OverlapQuotes(t, b) ==
  /\ impl = "snek" /\ alive
  /\ pc[t] = "quotes"
  /\ latest_quotes' = b
  /\ LET val == GetCurrentValue(cash, holdings, b)
     IN  /\ outcome' = val.err
         /\ portfolio_values' = IF val.err = "ok" THEN Append(portfolio_values, val.value)
                                ELSE portfolio_values
  /\ pc' = [pc EXCEPT ![t] = "idle"]
  /\ OverlapFrame
  /\ UNCHANGED <<cash, holdings, pending_orders, trade_log, finished, order_log, wire,
                 inputs, response>>

OverlapNext ==
  \/ \E order \in SnekOrders :
       Running /\ inputs < MaxInputs /\ SnekInsertOrder(order)
  \/ \E t \in Threads : OverlapCall(t)
  \/ \E t \in Threads : OverlapSend(t)
  \/ \E t \in Threads, n \in BOOLEAN, e \in SnekExecuted(MaxInputs - inputs) :
       \E i \in SnekInserted(MaxInputs - inputs - Len(e)) :
          OverlapStep(t, SnekResponse(n, e, i, EmptyDict))
  \/ \E t \in Threads, b \in Snapshots : OverlapQuotes(t, b)

SpecOverlap == SnekInit /\ [][OverlapNext]_vars

(* ------------------------------------------------------------------ *)
(* What the trade log says                                             *)
(* ------------------------------------------------------------------ *)
\* the side of a trade-log entry, raw value or enum member alike
Side(entry) == entry.typ.v

\* the entries the step appended to the trade log
NewTrades == SubSeq(trade_log', Len(trade_log) + 1, Len(trade_log'))

\* the cash the fills of log move: minus the value of a Buy, plus the value of a Sell
RECURSIVE CashEffect(_)
CashEffect(log) ==
  IF log = <<>> THEN 0
  ELSE CashEffect(Tail(log))
       + (IF Side(Head(log)) = "Buy" THEN -Head(log).value
          ELSE IF Side(Head(log)) = "Sell" THEN Head(log).value ELSE 0)

\* the signed quantity the fills of log move in symbol: Buy adds, Sell subtracts
RECURSIVE SignedFills(_, _)
SignedFills(log, symbol) ==
  IF log = <<>> THEN 0
  ELSE SignedFills(Tail(log), symbol)
       + (IF Head(log).symbol # symbol THEN 0
          ELSE IF Side(Head(log)) = "Buy" THEN Head(log).quantity
          ELSE IF Side(Head(log)) = "Sell" THEN -Head(log).quantity ELSE 0)

\* the elements of a sequence
Range(seq) == {seq[k] : k \in DOMAIN seq}

(* ------------------------------------------------------------------ *)
(* Claims                                                              *)
(* ------------------------------------------------------------------ *)
\* C1: every executed result a tick reconciles moves the ledger by its side: a Buy
\* takes its value from cash and adds its quantity to the position of its symbol, a
\* Sell adds its value to cash and takes its quantity from the position.  Stated
\* over a tick that returns normally: cash and every position change by exactly
\* what the entries appended to the trade log say.
C1_FillMovesLedgerBySide ==
  [][(op' = "tick" /\ outcome' = "ok") =>
       /\ cash' = cash + CashEffect(NewTrades)
       /\ \A s \in Symbols :
            GetPosition(holdings', s) = GetPosition(holdings, s) + SignedFills(NewTrades, s)]_vars

\* C2: in every state of a running Broker the cash balance is not negative.
C2_CashNeverNegative == alive => cash >= 0

\* C4: between operations the position of every symbol is the signed sum of the
\* quantities of the fills of that symbol in the trade log, a symbol without fills
\* being at zero.
C4_PositionIsSumOfTradeLog ==
  alive => \A s \in Symbols : GetPosition(holdings, s) = SignedFills(trade_log, s)

\* the tick of this step reached the k-th executed result of its response (the k-1
\* before it are in the trade log) and that result is a Buy whose value exceeds the
\* cash at that point
CashBefore(k) == cash + CashEffect(SubSeq(NewTrades, 1, k - 1))
InsolventFill(k) ==
  /\ impl = "rotala" /\ op' = "tick" /\ response' # None
  /\ k <= Len(response'[1].executed)
  /\ Len(NewTrades) >= k - 1
  /\ Side(response'[1].executed[k]) = "Buy"
  /\ response'[1].executed[k].value > CashBefore(k)

\* every position is where the entries appended to the trade log put it
PositionsFollowNewTrades ==
  \A s \in Symbols :
    GetPosition(holdings', s) = GetPosition(holdings, s) + SignedFills(NewTrades, s)

\* C3 (as stated): when tick reconciles a fill whose value exceeds the current cash,
\* the tick returns an InsolvencyError to the caller, the process goes on, and cash
\* and holdings are left at the values they had before that fill.
C3_InsolvencyReturnedToCaller ==
  [][\A k \in 1 .. MaxInputs :
       InsolventFill(k) =>
         /\ alive' /\ outcome' = "InsolvencyError"
         /\ cash' = CashBefore(k)
         /\ PositionsFollowNewTrades]_vars

\* C3 (amended): when the tick of the rotala Broker reconciles a Buy fill whose value
\* exceeds the current cash, the Broker takes the value from cash, which goes
\* negative, and ends the process with exit status 1: nothing is returned to the
\* caller.  Holdings stay as they were before that fill, the fill is not
\* appended to the trade log and no portfolio value is recorded.
C3_InsolvencyExitsProcess ==
  [][\A k \in 1 .. MaxInputs :
       InsolventFill(k) =>
         /\ ~alive' /\ outcome' = "exit1"
         /\ cash' = CashBefore(k) - response'[1].executed[k].value
         /\ cash' < 0
         /\ Len(NewTrades) = k - 1
         /\ PositionsFollowNewTrades
         /\ portfolio_values' = portfolio_values]_vars

\* a rotala tick stopped the process on a Buy that came after an earlier fill
C3_Witness ==
  /\ impl = "rotala" /\ op = "tick" /\ outcome = "exit1" /\ ~alive /\ cash < 0
  /\ response # None /\ trade_log # <<>>
  /\ Len(trade_log) + 1 <= Len(response[1].executed)
  /\ Side(response[1].executed[Len(trade_log) + 1]) = "Buy"

\* the step is a tick that read a response whose has_next is false
LastTick == op' = "tick" /\ response' # None /\ ~response'[1].has_next

\* C5 (as stated): a tick whose response has has_next false still applies every
\* executed result and inserted order of the response, returns normally, leaves the
\* Broker in the Finished state and adopts no new snapshot.
C5_LastTickReturnsNormally ==
  [][LastTick =>
       /\ alive' /\ outcome' = "ok"
       /\ Len(NewTrades) = Len(response'[1].executed)
       /\ impl = "snek" => finished'
       /\ latest_quotes' = latest_quotes]_vars

\* C5 (amended): a tick whose response has has_next false adopts no new snapshot.
\* The snek Broker applies every executed trade and inserted order of the response,
\* sets finished and returns normally, unless a symbol it holds is missing from the
\* quotes it keeps: the valuation then raises KeyError, finished being set all the
\* same.  The rotala Broker, when every executed result reconciles without error,
\* applies every executed result and inserted order and then ends the process with
\* exit status 0: it does not return, and it records no portfolio value.
C5_LastTickAppliesAllThenStops ==
  [][LastTick =>
       LET r == response'[1] IN
       /\ latest_quotes' = latest_quotes
       /\ impl = "snek" =>
            /\ NewTrades = [k \in 1 .. Len(r.executed) |-> SnekTradeFromDict(r.executed[k])]
            /\ order_log' = order_log \o r.inserted
            /\ finished' /\ alive'
            /\ outcome' \in {"ok", "KeyError"}
            /\ (outcome' = "ok") <=> (DOMAIN holdings' \subseteq DOMAIN latest_quotes)
            /\ (outcome' = "ok") => Len(portfolio_values') = Len(portfolio_values) + 1
       /\ impl = "rotala" =>
            /\ latest_depth' = latest_depth /\ ts' = ts
            /\ (outcome' = "exit0") <=> (Len(NewTrades) = Len(r.executed))
            /\ (outcome' = "exit0") =>
                 /\ ~alive'
                 /\ NewTrades =
                      [k \in 1 .. Len(r.executed) |-> RotalaResultFromDict(r.executed[k])]
                 /\ order_inserted_on_last_tick' = r.inserted
                 /\ \A k \in DOMAIN r.inserted :
                      r.inserted[k].order_id \in DOMAIN unexecuted_orders'
                 /\ portfolio_values' = portfolio_values]_vars

\* a last tick that had both an executed result and an inserted order to apply
C5_Witness ==
  /\ op = "tick" /\ response # None /\ outcome \in {"ok", "exit0"}
  /\ ~response[1].has_next
  /\ response[1].executed # <<>> /\ response[1].inserted # <<>>

\* C6 (as stated): once the Broker is Finished, every tick returns an
\* InvalidOperationError without sending anything to the service and without
\* changing cash, holdings, pending orders, resting orders, the trade log or the
\* portfolio history; the Finished state is never left.
C6_TickAfterFinishedReturnsError ==
  [][/\ (finished /\ op' = "tick") =>
          /\ alive' /\ outcome' = "InvalidOperationError"
          /\ wire' = <<>> /\ response' = None
          /\ UNCHANGED <<cash, holdings, pending_orders, unexecuted_orders, trade_log,
                         portfolio_values>>
     /\ finished => finished']_vars

\* C6 (amended): once the snek Broker is finished, a tick ends the process with exit
\* status 0 and returns no error; it sends nothing to the service and changes none
\* of cash, holdings, pending orders, the trade log, the order log or the portfolio
\* history, and finished is never reset.
C6_TickAfterFinishedExits ==
  [][/\ (finished /\ op' = "tick") =>
          /\ ~alive' /\ outcome' = "exit0"
          /\ wire' = <<>> /\ response' = None
          /\ UNCHANGED <<cash, holdings, pending_orders, trade_log, order_log,
                         portfolio_values, latest_quotes>>
     /\ finished => finished']_vars

\* a finished snek Broker was ticked again
C6_Witness == impl = "snek" /\ finished /\ op = "tick" /\ outcome = "exit0" /\ ~alive

\* the order asks to sell
IsSell(order) == order.order_type \in {"MarketSell", "LimitSell"}

\* the position covers the sale: it is positive and at least the quantity
Covered(order, h) ==
  GetPosition(h, order.symbol) > 0 /\ order.qty <= GetPosition(h, order.symbol)

\* C7: validation at flush passes a sell order exactly when the position of its
\* symbol is positive and at least the order's quantity, a symbol never traded
\* counting as a position of zero (the order is rejected, validation does not
\* fail); any other order passes.
C7_SellNeedsCoveringPosition ==
  impl = "snek" =>
    \A order \in SnekOrders :
      SnekValidateOrder(order, holdings) =
        IF IsSell(order) => Covered(order, holdings) THEN "True" ELSE "False"

\* C8: an order rejected at flush is not transmitted and does not stop the tick,
\* which goes on to step the service; the rejection itself changes neither cash
\* nor holdings.  Stated over a tick that finds an uncovered sell among the pending
\* orders and meets no transport failure.
C8_RejectedOrderSkippedTickGoesOn ==
  [][(/\ op' = "tick" /\ ~finished /\ outcome' # "ConnectionError"
      /\ \E k \in DOMAIN pending_orders :
           IsSell(pending_orders[k]) /\ ~Covered(pending_orders[k], holdings)) =>
       /\ \A k \in DOMAIN pending_orders :
            (IsSell(pending_orders[k]) /\ ~Covered(pending_orders[k], holdings))
              => pending_orders[k] \notin Range(wire')
       /\ response' # None
       /\ response'[1].executed = <<>> => UNCHANGED <<cash, holdings>>]_vars

\* C9: every order rejected at flush is reported by an event that names its symbol
\* and the reason; no order leaves the pending list without being transmitted or
\* reported.  Stated over a snek tick that returns normally.
C9_RejectionReported ==
  [][(impl = "snek" /\ op' = "tick" /\ outcome' = "ok") =>
       \A k \in DOMAIN pending_orders :
         pending_orders[k] \notin Range(pending_orders') =>
           \/ pending_orders[k] \in Range(wire')
           \/ \E ev \in Range(rejection_events') : ev.symbol = pending_orders[k].symbol]_vars

\* a is b with some elements left out, the rest in the order of b
RECURSIVE IsSubsequence(_, _)
IsSubsequence(a, b) ==
  IF a = <<>> THEN TRUE
  ELSE IF b = <<>> THEN FALSE
  ELSE IF Head(a) = Head(b) THEN IsSubsequence(Tail(a), Tail(b))
  ELSE IsSubsequence(a, Tail(b))

\* C10: the orders a tick transmits reach the service in the order of their
\* insertion: what the service received is the pending list, rejected orders left
\* out, in the same order.
C10_WireKeepsInsertionOrder ==
  [][op' = "tick" => IsSubsequence(wire', pending_orders)]_vars

\* the step is a rotala tick that read a response
RotalaRead == impl = "rotala" /\ op' = "tick" /\ response' # None

\* the result is a fill
IsFill(result) == Side(result) \in {"Buy", "Sell"}

\* C11: a fill for a tracked order_id whose quantity is less than the tracked
\* quantity leaves the entry in unexecuted_orders with its quantity reduced by the
\* fill; the entry goes only when nothing remains.  Stated over a tick whose
\* response holds that one fill and nothing else and which does not stop the process.
C11_PartialFillReducesRestingOrder ==
  [][(/\ RotalaRead /\ outcome' # "exit1"
      /\ Len(response'[1].executed) = 1 /\ response'[1].inserted = <<>>
      /\ IsFill(response'[1].executed[1])
      /\ response'[1].executed[1].order_id \in DOMAIN unexecuted_orders) =>
       LET fill == response'[1].executed[1]
           tracked == unexecuted_orders[fill.order_id].qty
       IN  /\ fill.quantity < tracked =>
                /\ fill.order_id \in DOMAIN unexecuted_orders'
                /\ unexecuted_orders'[fill.order_id].qty = tracked - fill.quantity
           /\ fill.quantity = tracked => fill.order_id \notin DOMAIN unexecuted_orders']_vars

\* the k-th executed result of response r is the only part of r that names its order_id
OnlyMention(r, k) ==
  /\ \A j \in DOMAIN r.executed :
       j # k => /\ r.executed[j].order_id # r.executed[k].order_id
                /\ r.executed[j].order_id_ref # Some(r.executed[k].order_id)
  /\ \A j \in DOMAIN r.inserted : r.inserted[j].order_id # r.executed[k].order_id

\* C12: an order a tick reports in inserted_orders is in unexecuted_orders under its
\* order_id after that tick; when a later tick reconciles a fill of the full
\* tracked quantity for that order_id, the entry is gone after that tick and cash
\* and position have moved by the fill.
C12_RestingOrderTrackedUntilFilled ==
  [][RotalaRead =>
       LET r == response'[1]
           done == Len(NewTrades) = Len(r.executed)
       IN  /\ done =>
                \A k \in DOMAIN r.inserted :
                  /\ r.inserted[k].order_id \in DOMAIN unexecuted_orders'
                  /\ \E j \in DOMAIN r.inserted :
                       /\ r.inserted[j].order_id = r.inserted[k].order_id
                       /\ unexecuted_orders'[r.inserted[k].order_id]
                            = RotalaOrderFromDict(r.inserted[j])
           /\ \A k \in DOMAIN r.executed :
                (/\ k <= Len(NewTrades) /\ IsFill(r.executed[k])
                 /\ OnlyMention(r, k)
                 /\ r.executed[k].order_id \in DOMAIN unexecuted_orders
                 /\ r.executed[k].quantity = unexecuted_orders[r.executed[k].order_id].qty) =>
                  /\ r.executed[k].order_id \notin DOMAIN unexecuted_orders'
                  /\ NewTrades[k] = RotalaResultFromDict(r.executed[k])
                  /\ done => (cash' = cash + CashEffect(NewTrades) /\ PositionsFollowNewTrades)]_vars

\* a tick has filled, in full, an order that an earlier tick had reported resting
C12_Witness ==
  /\ impl = "rotala" /\ op = "tick" /\ outcome = "ok" /\ response # None
  /\ Len(response[1].executed) = 1 /\ Len(trade_log) = 1
  /\ IsFill(response[1].executed[1])
  /\ response[1].executed[1].order_id \in DOMAIN unexecuted_before
  /\ response[1].executed[1].quantity
       = unexecuted_before[response[1].executed[1].order_id].qty
  /\ response[1].executed[1].order_id \notin DOMAIN unexecuted_orders
  /\ GetPosition(holdings, response[1].executed[1].symbol) # 0

\* the result is a Cancel whose own order_id and whose reference are two entries of d
BothTracked(result, d) ==
  /\ Side(result) = "Cancel"
  /\ result.order_id \in DOMAIN d
  /\ result.order_id_ref # None
  /\ result.order_id_ref[1] \in DOMAIN d
  /\ result.order_id_ref[1] # result.order_id

\* C13: reconciling a Cancel result whose own order_id and whose reference are both
\* tracked removes exactly those two entries of unexecuted_orders and leaves every
\* other entry, cash and holdings as they were.  Stated over a tick whose response
\* holds that one result and nothing else.
C13_CancelRemovesExactlyTwoEntries ==
  [][(/\ RotalaRead
      /\ Len(response'[1].executed) = 1 /\ response'[1].inserted = <<>>
      /\ BothTracked(response'[1].executed[1], unexecuted_orders)) =>
       LET cancel == response'[1].executed[1]
           rest == DOMAIN unexecuted_orders \ {cancel.order_id, cancel.order_id_ref[1]}
       IN  /\ DOMAIN unexecuted_orders' = rest
           /\ \A id \in rest : unexecuted_orders'[id] = unexecuted_orders[id]
           /\ cash' = cash /\ holdings' = holdings
           /\ NewTrades = <<RotalaResultFromDict(cancel)>>]_vars

\* a Cancel took two of three resting orders and left the third
C13_Witness ==
  /\ impl = "rotala" /\ op = "tick" /\ outcome = "ok" /\ response # None
  /\ Len(response[1].executed) = 1 /\ response[1].inserted = <<>>
  /\ BothTracked(response[1].executed[1], unexecuted_before)
  /\ DOMAIN unexecuted_before = {1, 2, 3}
  /\ DOMAIN unexecuted_orders = {3}

\* the first executed result of the response is a Cancel and its own order_id or
\* its reference is not tracked
UntrackedCancel ==
  /\ RotalaRead /\ response'[1].executed # <<>>
  /\ Side(response'[1].executed[1]) = "Cancel"
  /\ \/ response'[1].executed[1].order_id \notin DOMAIN unexecuted_orders
     \/ response'[1].executed[1].order_id_ref = None
     \/ response'[1].executed[1].order_id_ref[1] \notin DOMAIN unexecuted_orders

\* C14 (as stated): reconciling a Cancel result whose own order_id or whose
\* reference is not tracked raises a LifecycleInconsistency error to the caller.
C14_UntrackedCancelRaisesLifecycleInconsistency ==
  [][UntrackedCancel => (alive' /\ outcome' = "LifecycleInconsistency")]_vars

\* C14 (amended): reconciling a Cancel result whose own order_id or whose reference
\* is not tracked raises KeyError to the caller; it is never passed over.  The tick
\* stops there: the result is not logged, cash and holdings are untouched and no
\* value is recorded.  When the own order_id is tracked and only the reference is
\* not, the own entry is already removed when the error is raised.
C14_UntrackedCancelRaisesKeyError ==
  [][UntrackedCancel =>
       LET cancel == response'[1].executed[1]
       IN  /\ alive' /\ outcome' = "KeyError"
           /\ NewTrades = <<>>
           /\ cash' = cash /\ holdings' = holdings
           /\ portfolio_values' = portfolio_values
           /\ DOMAIN unexecuted_orders' = DOMAIN unexecuted_orders \ {cancel.order_id}
           /\ \A id \in DOMAIN unexecuted_orders' :
                unexecuted_orders'[id] = unexecuted_orders[id]]_vars

\* a Cancel whose own instruction was tracked named an order that was not
C14_Witness ==
  /\ impl = "rotala" /\ op = "tick" /\ outcome = "KeyError" /\ alive
  /\ response # None /\ response[1].executed # <<>>
  /\ Side(response[1].executed[1]) = "Cancel"
  /\ response[1].executed[1].order_id \in DOMAIN unexecuted_before
  /\ response[1].executed[1].order_id_ref[1] \notin DOMAIN unexecuted_before
  /\ trade_log = <<>>

\* the held symbols that have a quote in the latest snapshot, and those whose
\* quote is there and not empty
Present == {s \in DOMAIN holdings : s \in DOMAIN latest_quotes}
Quoted == {s \in Present : latest_quotes[s].truthy}

\* position times bid, summed over the symbols of syms
RECURSIVE BidValue(_)
BidValue(syms) ==
  IF syms = {} THEN 0
  ELSE LET s == CHOOSE x \in syms : TRUE
       IN  GetPosition(holdings, s) * latest_quotes[s].bid + BidValue(syms \ {s})

\* C15: in every state in which every held symbol has a quote in the latest
\* snapshot, current_value() is cash plus the sum over the held symbols of position
\* times bid.
C15_ValueIsCashPlusPositionsAtBid ==
  Quoted = DOMAIN holdings =>
    GetCurrentValue(cash, holdings, latest_quotes)
      = [err |-> "ok", value |-> cash + BidValue(DOMAIN holdings)]

\* two symbols are held, both quoted
C15_Witness ==
  /\ alive /\ Quoted = DOMAIN holdings /\ DOMAIN holdings = Symbols
  /\ \A s \in Symbols : holdings[s] # 0

\* C16 (as stated): if a held symbol has no quote in the latest snapshot (it is
\* missing or its entry is empty), current_value() fails with a StaleQuoteError.
C16_MissingQuoteRaisesStaleQuoteError ==
  Quoted # DOMAIN holdings =>
    GetCurrentValue(cash, holdings, latest_quotes).err = "StaleQuoteError"

\* the step is a tick that read a whole response and came to its valuation
Valued ==
  /\ op' = "tick" /\ response' # None
  /\ impl = "rotala" => response'[1].missing = None
  /\ Len(NewTrades) = Len(response'[1].executed)
  /\ outcome' \in {"ok", "KeyError"}

\* C16 (amended): if a held symbol is missing from the latest snapshot,
\* current_value() raises KeyError; a held symbol whose quote entry is empty is left
\* out of the sum and a value is returned.  A tick whose valuation fails stays
\* alive with the reconciled ledger and records no value.
C16_MissingQuoteRaisesKeyErrorEmptyIsSkipped ==
  /\ [](/\ Present # DOMAIN holdings =>
             GetCurrentValue(cash, holdings, latest_quotes).err = "KeyError"
        /\ Present = DOMAIN holdings =>
             GetCurrentValue(cash, holdings, latest_quotes)
               = [err |-> "ok", value |-> cash + BidValue(Quoted)])
  /\ [][Valued =>
          /\ (outcome' = "KeyError") <=> (Present' # DOMAIN holdings')
          /\ (outcome' = "KeyError") =>
               /\ alive' /\ portfolio_values' = portfolio_values
               /\ impl = "rotala" =>
                    (cash' = cash + CashEffect(NewTrades) /\ PositionsFollowNewTrades)]_vars

\* a tick valued a ledger that holds a symbol whose quote is empty, and another
\* tick failed on a held symbol that is missing
C16_Witness ==
  /\ op = "tick" /\ alive
  /\ \/ outcome = "ok" /\ Present = DOMAIN holdings /\ Quoted # Present
     \/ outcome = "KeyError" /\ Present # DOMAIN holdings /\ response # None
        /\ Len(trade_log) = Len(response[1].executed) /\ trade_log # <<>>

\* the step appends to the portfolio history the value of the ledger it leaves
AppendsValue ==
  /\ Present' = DOMAIN holdings'
  /\ portfolio_values' = Append(portfolio_values, cash' + BidValue(Quoted)')

\* C17 (as stated): the portfolio history gains exactly one entry per tick that
\* returns normally, the tick that reads has_next false included, and none from any
\* other operation; entries are never changed or removed; the entry is
\* current_value() after the reconciliation of that tick.
C17_OneValuePerTickLastTickIncluded ==
  [][/\ IF op' = "tick" /\ outcome' = "ok"
        THEN AppendsValue ELSE portfolio_values' = portfolio_values
     /\ (LastTick /\ Len(NewTrades) = Len(response'[1].executed)
           /\ Present' = DOMAIN holdings') => AppendsValue]_vars

\* C17 (amended): the portfolio history gains exactly one entry per tick that
\* returns normally and none from any other operation, nor from a tick that ends in
\* an error or in a process exit; entries are never changed or removed; the entry
\* is current_value() after the reconciliation of that tick.  The snek tick that
\* reads has_next false returns normally and adds its entry; the rotala tick that
\* reads has_next false never returns normally and adds none.
C17_OneValuePerNormalTick ==
  [][/\ IF op' = "tick" /\ outcome' = "ok"
        THEN AppendsValue ELSE portfolio_values' = portfolio_values
     /\ (LastTick /\ impl = "snek" /\ Present' = DOMAIN holdings') => AppendsValue
     /\ (LastTick /\ impl = "rotala") =>
          (outcome' # "ok" /\ portfolio_values' = portfolio_values)]_vars

\* a second value was recorded for a ledger that holds a position
C17_Witness ==
  /\ op = "tick" /\ outcome = "ok" /\ Len(portfolio_values) = 2
  /\ holdings # EmptyDict /\ Quoted # {}
  /\ portfolio_values[2] = cash + BidValue(Quoted)
  /\ portfolio_values[2] # cash

\* the kinds of order and the arguments a caller may hand to the constructor
OrderKinds == {"MarketSell", "MarketBuy", "LimitBuy", "LimitSell", "Modify", "Cancel"}
OrderArgs == [order_type : OrderKinds, qty : {-1, 0, 2}, price : {None, Some(1)}]

\* the arguments the claim lets through
ValidOrderArgs(a) ==
  /\ a.order_type \in {"MarketSell", "MarketBuy"} => a.price = None
  /\ a.order_type \in {"LimitBuy", "LimitSell"} => a.price # None
  /\ a.order_type # "Cancel" => a.qty > 0

\* C18: constructing an Order fails when a price is given for a market order, when
\* the price is omitted for a limit order, or when the quantity is <= 0 for a kind
\* other than Cancel; a Cancel of quantity 0 is constructed.  Hence every pending
\* order is a valid one.
C18_OrderConstructorValidates ==
  /\ \A a \in OrderArgs :
       /\ (impl = "snek" /\ a.order_type \in {"MarketSell", "MarketBuy", "LimitBuy", "LimitSell"})
            => (SnekOrderInitOK(a.order_type, "SYM", a.qty, a.price) <=> ValidOrderArgs(a))
       /\ impl = "rotala"
            => (RotalaOrderInitOK(a.order_type, "SYM", a.qty, a.price, None)
                  <=> ValidOrderArgs(a))
  /\ \A k \in DOMAIN pending_orders : ValidOrderArgs(pending_orders[k])

\* A tick in which a call to the exchange failed before any step response
\* was read (the failure of snek's closing fetch_quotes is a later call).
TransportFailed ==
  /\ op' = "tick"
  /\ outcome' = "ConnectionError"
  /\ response' = None

\* What the failed tick put on the wire, in the order of the calls.
RECURSIVE Backwards(_)
Backwards(s) ==
  IF s = <<>> THEN <<>> ELSE Append(Backwards(Tail(s)), Head(s))

\* C19 (as stated): after a transport failure in transmitting orders or in
\* requesting the step, PendingOrders is drained and cash, holdings,
\* UnexecutedOrders, the trade log, the value history and the Active /
\* Finished state are unchanged.
C19_TransportFailureDrainsPending ==
  [][TransportFailed =>
       /\ pending_orders' = <<>>
       /\ alive'
       /\ UNCHANGED <<cash, holdings, unexecuted_orders, trade_log,
                      portfolio_values, finished>>]_vars

\* C19 (amended): no call is retried and the connection error leaves the
\* tick as raised.  Cash, holdings, UnexecutedOrders, the trade log, the
\* value history, the quotes and the Active / Finished state are unchanged.
\* The snek Broker has popped the orders it got to: what is left of
\* pending_orders is a prefix of it, the order whose transmission failed is
\* gone without having been transmitted, and each transmitted order was
\* transmitted once.  The rotala Broker either failed in insert_orders and
\* keeps pending_orders whole, or failed in the step request and has
\* transmitted and drained them all.
C19_TransportFailureIsNotRetried ==
  [][TransportFailed =>
       /\ alive'
       /\ UNCHANGED <<cash, holdings, unexecuted_orders, trade_log,
                      portfolio_values, finished, latest_quotes, ts>>
       /\ impl = "snek" =>
            LET n == Len(pending_orders')
                popped == SubSeq(pending_orders, n + 1, Len(pending_orders))
            IN  /\ n <= Len(pending_orders)
                /\ pending_orders' = SubSeq(pending_orders, 1, n)
                /\ IsSubsequence(Backwards(wire'), popped)
                /\ n > 0 => Len(wire') < Len(popped)
       /\ impl = "rotala" =>
            \/ /\ pending_orders' = pending_orders
               /\ wire' = <<>>
               /\ UNCHANGED order_inserted_on_last_tick
            \/ /\ pending_orders' = <<>>
               /\ Len(wire') = Len(pending_orders)
               /\ order_inserted_on_last_tick' = <<>>]_vars

\* A snek tick failed while transmitting and left an order pending.
C19_Witness ==
  /\ impl = "snek"
  /\ op = "tick"
  /\ outcome = "ConnectionError"
  /\ response = None
  /\ pending_orders # <<>>

\* The rotala tick read a response that lacks a key and came to the place
\* where it reads that key (bbo and depth are read only when has_next holds).
LacksKey ==
  /\ RotalaRead
  /\ response'[1].missing # None
  /\ Len(NewTrades) = Len(response'[1].executed)
  /\ response'[1].missing[1] \in {"bbo", "depth"} => response'[1].has_next

\* The rotala tick came to result k of the response, and its kind is t.
ReachedKind(k, kinds) ==
  /\ RotalaRead
  /\ k \in DOMAIN response'[1].executed
  /\ Len(NewTrades) = k - 1
  /\ response'[1].executed[k].typ.v \in kinds

\* C20 (as stated): a step response that lacks a required field, or holds a
\* result of an unknown kind, makes tick return ProtocolError; the Broker
\* remains Active.
C20_MalformedResponseReturnsProtocolError ==
  [][(\/ LacksKey
      \/ \E k \in 1 .. MaxInputs + 1 : ReachedKind(k, {"Modify", "Expired"})) =>
       /\ outcome' = "ProtocolError"
       /\ alive']_vars

\* C20 (amended): a step response that lacks a key makes tick raise KeyError
\* where it reads that key: the orders have been transmitted, the results
\* and resting orders read before that place stay reconciled, no value is
\* recorded (with depth lacking, the quotes are already replaced).  A result
\* whose kind is not a value of OrderResultType makes tick raise ValueError,
\* the results before it staying reconciled.  In both cases the Broker stays
\* usable and a further tick is accepted.  A Modify result, which
\* OrderResultType has and _process_order_result does not handle, ends the
\* process with exit(1).
C20_MalformedResponseRaisesKeyOrValueError ==
  /\ [][LacksKey =>
          /\ outcome' = "KeyError"
          /\ alive'
          /\ pending_orders' = <<>>
          /\ UNCHANGED <<portfolio_values, ts, latest_depth, finished>>
          /\ cash' = cash + CashEffect(NewTrades)
          /\ response'[1].missing = Some("executed_orders") =>
               UNCHANGED <<cash, holdings, unexecuted_orders, trade_log>>
          /\ response'[1].missing = Some("inserted_orders") =>
               order_inserted_on_last_tick' = <<>>
          /\ response'[1].missing[1] \in {"has_next", "bbo", "depth"} =>
               order_inserted_on_last_tick' = response'[1].inserted
          /\ latest_quotes' = IF response'[1].missing = Some("depth")
                              THEN response'[1].bbo ELSE latest_quotes]_vars
  /\ [][\A k \in 1 .. MaxInputs + 1 :
          /\ ReachedKind(k, {"Expired"}) =>
               /\ outcome' = "ValueError"
               /\ alive'
               /\ pending_orders' = <<>>
               /\ cash' = cash + CashEffect(NewTrades)
               /\ UNCHANGED <<portfolio_values, latest_quotes, ts, finished>>
          /\ ReachedKind(k, {"Modify"}) =>
               /\ outcome' = "exit1"
               /\ ~alive']_vars
  /\ [](impl = "rotala" /\ op = "tick" /\ outcome \in {"KeyError", "ValueError"} =>
          ENABLED RotalaTick(RotalaResponse(TRUE, <<>>, <<>>, EmptyDict), 0))

\* A rotala tick reconciled a result, found has_next lacking and left the
\* Broker usable.
C20_Witness ==
  /\ impl = "rotala" /\ op = "tick" /\ alive
  /\ outcome = "KeyError"
  /\ response # None
  /\ response[1].missing = Some("has_next")
  /\ Len(trade_log) = Len(response[1].executed) /\ trade_log # <<>>

\* the log entry that stands for the executed result d of a response: the fields
\* of d, its kind by name
Logged(entry, d) ==
  /\ entry.symbol = d.symbol /\ entry.value = d.value
  /\ entry.quantity = d.quantity /\ entry.date = d.date
  /\ Side(entry) = d.typ.v

\* log holds, entry by entry, the first Len(log) results of executed
LogsPrefixOf(log, executed) ==
  /\ Len(log) <= Len(executed)
  /\ \A k \in DOMAIN log : Logged(log[k], executed[k])

\* the step left the entries the log had where they were
LogKept ==
  /\ Len(trade_log) <= Len(trade_log')
  /\ SubSeq(trade_log', 1, Len(trade_log)) = trade_log

\* C21 (as stated): the trade log is append-only, and each tick appends every
\* executed result of its response exactly once, in the order received, after
\* the entries of all earlier ticks.
C21_TickLogsEveryResult ==
  [][/\ LogKept
     /\ (op' = "tick" /\ response' # None) =>
          /\ LogsPrefixOf(NewTrades, response'[1].executed)
          /\ Len(NewTrades) = Len(response'[1].executed)]_vars

\* C21 (amended): the trade log is append-only: no step removes, reorders or
\* changes an entry.  A tick appends the executed results of its response in
\* the order received, each once, up to the first result at which its
\* reconciliation ends the tick; a tick that returns normally or ends the
\* simulation with exit(0), and every tick of the snek Broker that read a
\* response, has appended them all.  A step that read no response appends
\* nothing.
C21_TickLogsResultsUntilAborted ==
  [][/\ LogKept
     /\ (op' = "tick" /\ response' # None) =>
          /\ LogsPrefixOf(NewTrades, response'[1].executed)
          /\ (outcome' \in {"ok", "exit0"} \/ impl = "snek") =>
               Len(NewTrades) = Len(response'[1].executed)
     /\ (op' # "tick" \/ response' = None) => NewTrades = <<>>]_vars

\* A later tick appended its result behind the entry of an earlier tick.
C21_Witness ==
  /\ op = "tick" /\ outcome = "ok" /\ response # None
  /\ Len(response[1].executed) = 1
  /\ Len(trade_log) = 2
  /\ Logged(trade_log[2], response[1].executed[1])

\* how many times o stands in seq
Count(seq, o) == Cardinality({k \in DOMAIN seq : seq[k] = o})

\* C22: after every tick that returns normally PendingOrders is empty, and
\* each inserted order is transmitted at most once: insert_order transmits
\* nothing and adds at most the one order, a tick transmits only orders that
\* are pending, each no more often than it is pending, and none of the
\* transmitted orders is pending afterwards.
C22_PendingFlushedOnce ==
  [][/\ (op' = "tick" /\ outcome' = "ok") => pending_orders' = <<>>
     /\ op' = "tick" =>
          \A o \in Range(pending_orders) \cup Range(wire') \cup Range(pending_orders') :
            Count(wire', o) + Count(pending_orders', o) <= Count(pending_orders, o)
     /\ op' = "insert_order" =>
          /\ wire' = <<>>
          /\ \/ pending_orders' = pending_orders
             \/ \E o \in SnekOrders \cup RotalaOrders :
                  pending_orders' = Append(pending_orders, o)]_vars

\* A second tick has returned, has transmitted an order and left none pending.
C22_Witness ==
  /\ op = "tick" /\ outcome = "ok"
  /\ Len(portfolio_values) = 2
  /\ wire # <<>>
  /\ pending_orders = <<>>

\* C23: a tick() invoked while another tick() on the same Broker is in flight
\* is rejected and makes no change to cash, holdings, PendingOrders or
\* UnexecutedOrders.  The thread "second" enters tick only while "first" is in
\* it, so no step that moves "second" on in its call may change any of the four.
C23_OverlappingTickChangesNothing ==
  [][pc'["second"] # pc["second"] =>
       UNCHANGED <<cash, holdings, pending_orders, unexecuted_orders>>]_vars

\* the orders of pend that pass validation against the positions the trade log
\* log gives (a sell passes when the position of its symbol is positive and at
\* least its quantity), in the order of pend
Passing(pend, log) ==
  LET Passes(order) ==
        IsSell(order) => /\ SignedFills(log, order.symbol) > 0
                         /\ order.qty <= SignedFills(log, order.symbol)
  IN  SelectSeq(pend, Passes)

CompleteFill(fill) ==
  \/ \E j \in DOMAIN response'[1].inserted :
       /\ response'[1].inserted[j].order_id = fill.order_id
       /\ response'[1].inserted[j].qty = fill.quantity
  \/ /\ fill.order_id \in DOMAIN unexecuted_orders
     /\ unexecuted_orders[fill.order_id].qty = fill.quantity
     /\ \A j \in DOMAIN response'[1].inserted :
          response'[1].inserted[j].order_id # fill.order_id

\* C25: between ticks UnexecutedOrders holds only order_ids that the service
\* reported in inserted_orders and that were not since reported filled
\* completely or cancelled: every id tracked after a tick was tracked before or
\* is listed in inserted_orders of its response, and an order whose complete
\* fill the response reports, also when the same response lists it in
\* inserted_orders, is not tracked after the tick.
C25_UnexecutedHoldsOnlyRestingOrders ==
  [][(RotalaRead /\ outcome' = "ok") =>
       /\ \A id \in DOMAIN unexecuted_orders' :
            \/ id \in DOMAIN unexecuted_orders
            \/ \E j \in DOMAIN response'[1].inserted :
                 response'[1].inserted[j].order_id = id
       /\ \A k \in DOMAIN NewTrades :
            (IsFill(NewTrades[k]) /\ CompleteFill(NewTrades[k])) =>
              NewTrades[k].order_id \notin DOMAIN unexecuted_orders']_vars

\* the timestamp of a snapshot that quotes a symbol: the date its quotes carry
Stamp(bbo) ==
  CHOOSE d \in {bbo[s].date : s \in DOMAIN bbo} :
    \E s \in DOMAIN bbo : bbo[s].truthy /\ bbo[s].date = d

\* the rotala tick read a response with has_next = true
ReadNext == RotalaRead /\ HasKey(response'[1], "has_next") /\ response'[1].has_next

\* C26 (as stated): after every tick that receives has_next = true the quote and
\* depth snapshots are the ones the response carries and the clock is the
\* timestamp of that quote snapshot; no other step changes snapshot or clock.
C26_SnapshotFollowsEveryNextTick ==
  [][impl = "rotala" =>
       IF ReadNext
       THEN /\ latest_quotes' = response'[1].bbo
            /\ latest_depth' = response'[1].depth
            /\ response'[1].bbo # EmptyDict => ts' = Some(Stamp(response'[1].bbo))
       ELSE UNCHANGED <<latest_quotes, latest_depth, ts>>]_vars

\* the tick reconciled every result of a response with has_next = true and
\* found the keys it reads, depth perhaps excepted
CameToSnapshot ==
  /\ ReadNext
  /\ Len(NewTrades) = Len(response'[1].executed)
  /\ response'[1].missing \in {None, Some("depth")}

\* C26 (amended): a tick that receives has_next = true and is not ended before
\* it comes to the snapshot takes the quote and depth snapshots of the response
\* and sets the clock to the date of the quote snapshot; a quote snapshot
\* without a symbol is taken and leaves the clock as it was; a response without
\* depth leaves the depth and the clock as they were, the quotes being already
\* taken.  A tick ended earlier, a tick that receives has_next = false and
\* insert_order change neither snapshot nor clock.
C26_SnapshotFollowsTickThatComesToIt ==
  [][impl = "rotala" =>
       IF CameToSnapshot
       THEN /\ latest_quotes' = response'[1].bbo
            /\ IF response'[1].missing = None
               THEN /\ latest_depth' = response'[1].depth
                    /\ ts' = IF response'[1].bbo # EmptyDict
                             THEN Some(Stamp(response'[1].bbo)) ELSE ts
               ELSE UNCHANGED <<latest_depth, ts>>
       ELSE UNCHANGED <<latest_quotes, latest_depth, ts>>]_vars

\* A tick took the snapshot of its response and moved the clock on.
C26_Witness ==
  /\ impl = "rotala" /\ op = "tick" /\ outcome = "ok"
  /\ response # None /\ response[1].has_next
  /\ latest_quotes = response[1].bbo /\ latest_depth = response[1].depth
  /\ ts = Some(101)

\* the response the step read reports a fill
ReportsFill ==
  /\ response' # None
  /\ \E k \in DOMAIN response'[1].executed : IsFill(response'[1].executed[k])

\* C27: holdings start empty and cash starts at the configured initial cash;
\* cash and holdings change only in a tick that reconciles a Buy or Sell result:
\* a tick whose response reports no fill (Cancel results, resting orders, or
\* nothing) and a tick that read no response leave both as they were, and
\* insert_order of the rotala Broker appends the one order to PendingOrders,
\* sends nothing and changes nothing else.
C27_LedgerMovesOnlyOnFills ==
  /\ [](op = "init" => (cash = InitialCash /\ holdings = EmptyDict))
  /\ [][(op' # "tick" \/ ~ReportsFill) => UNCHANGED <<cash, holdings>>]_vars
  /\ [][(impl = "rotala" /\ op' = "insert_order") =>
          /\ \E order \in RotalaOrders : pending_orders' = Append(pending_orders, order)
          /\ wire' = <<>>
          /\ UNCHANGED <<cash, holdings, trade_log, portfolio_values, latest_quotes,
                         latest_depth, ts, unexecuted_orders,
                         order_inserted_on_last_tick, alive>>]_vars

\* A rotala tick registered a resting order after an insert_order and left cash
\* and holdings as they started.
C27_Witness ==
  /\ impl = "rotala" /\ op = "tick" /\ outcome = "ok"
  /\ wire # <<>>
  /\ response # None /\ response[1].inserted # <<>> /\ response[1].executed = <<>>
  /\ unexecuted_orders # EmptyDict
  /\ cash = InitialCash /\ holdings = EmptyDict

====
